---- MODULE Spec2Model ----
(***************************************************************************)
(* Media upload / download / listing of the ibarize backend, in its two    *)
(* deployment modes:                                                       *)
(*   "disk"   - server.js: multer diskStorage + Media records              *)
(*   "gridfs" - the serverless app: multer memoryStorage + GridFS bucket   *)
(* Both apps load "./models/Media"; the repository holds two such models, *)
(* one with a required gridFsId path and one without, and either may be    *)
(* the one an app finds (variable schema).                                 *)
(*                                                                         *)
(* Strings whose characters matter (file names, MIME types) are sequences  *)
(* of one-character strings.  Byte payloads are run-length encoded:        *)
(* a sequence of runs [b |-> byte, n |-> count], adjacent runs differing   *)
(* in b, so that megabyte payloads are exact and small.                    *)
(***************************************************************************)
EXTENDS Integers, Sequences, FiniteSets, TLC

(***************************************************************************)
(* Byte payloads (run-length encoded)                                      *)
(***************************************************************************)
Min(a, b) == IF a < b THEN a ELSE b

RECURSIVE Size(_)
Size(p) == IF p = <<>> THEN 0 ELSE Head(p).n + Size(Tail(p))

\* Buffer.concat / stream concatenation of two payloads
Concat(p, q) ==
  IF p = <<>> THEN q
  ELSE IF q = <<>> THEN p
  ELSE IF p[Len(p)].b = Head(q).b
       THEN SubSeq(p, 1, Len(p) - 1)
            \o <<[b |-> Head(q).b, n |-> p[Len(p)].n + Head(q).n]>>
            \o Tail(q)
       ELSE p \o q

\* the first k bytes of p
RECURSIVE Take(_, _)
Take(p, k) ==
  IF k <= 0 \/ p = <<>> THEN <<>>
  ELSE IF Head(p).n <= k
       THEN Concat(<<Head(p)>>, Take(Tail(p), k - Head(p).n))
       ELSE <<[b |-> Head(p).b, n |-> k]>>

\* p without its first k bytes
RECURSIVE Drop(_, _)
Drop(p, k) ==
  IF k <= 0 \/ p = <<>> THEN p
  ELSE IF Head(p).n <= k
       THEN Drop(Tail(p), k - Head(p).n)
       ELSE <<[b |-> Head(p).b, n |-> Head(p).n - k]>> \o Tail(p)

\* buffer.slice(from, to)
Slice(p, from, to) == Take(Drop(p, from), to - from)

Run(b, n) == <<[b |-> b, n |-> n]>>

(***************************************************************************)
(* Character strings                                                       *)
(***************************************************************************)
\* String.prototype.toLowerCase, on the letters the model uses
LowerChar(c) ==
  CASE c = "J" -> "j"
    [] c = "P" -> "p"
    [] c = "G" -> "g"
    [] c = "N" -> "n"
    [] OTHER -> c

toLowerCase(s) == [i \in 1..Len(s) |-> LowerChar(s[i])]

\* s contains w as a contiguous substring
Contains(s, w) ==
  \E i \in 1..(Len(s) - Len(w) + 1) : SubSeq(s, i, i + Len(w) - 1) = w

\* index of the last occurrence of character c in s, 0 when absent
LastIndexOf(s, c) ==
  IF \E i \in 1..Len(s) : s[i] = c
  THEN CHOOSE i \in 1..Len(s) :
         s[i] = c /\ \A j \in (i + 1)..Len(s) : s[j] # c
  ELSE 0

\* path.basename: what follows the last "/"
basename(s) == SubSeq(s, LastIndexOf(s, "/") + 1, Len(s))

\* path.extname: from the last "." of the basename to its end; "" when
\* there is no "." or the only "." is the basename's first character
extname(s) ==
  LET base == basename(s)
      dot  == LastIndexOf(base, ".")
  IN  IF dot <= 1 THEN <<>> ELSE SubSeq(base, dot, Len(base))

(***************************************************************************)
(* fileFilter (identical in both files) and the multer limits              *)
(***************************************************************************)
\* the alternatives of  /jpeg|jpg|png|gif|mp4|avi|mov|wmv/
allowedTypes ==
  { <<"j","p","e","g">>, <<"j","p","g">>, <<"p","n","g">>, <<"g","i","f">>,
    <<"m","p","4">>, <<"a","v","i">>, <<"m","o","v">>, <<"w","m","v">> }

\* RegExp.prototype.test of the unanchored pattern: some alternative occurs
\* somewhere in s
allowedTypesTest(s) == \E w \in allowedTypes : Contains(s, w)

\* fileFilter: cb(null, true) when both tests succeed, cb(new Error) otherwise
fileFilter(file) ==
  LET ext  == allowedTypesTest(toLowerCase(extname(file.originalname)))
      mime == allowedTypesTest(file.mimetype)
  IN  mime /\ ext

\* limits.fileSize of uploadWithLimits
fileSizeDisk == 50 * 1024 * 1024

fileSizeGridFS == 4 * 1024 * 1024

fileSizeLimit(m) == IF m = "disk" THEN fileSizeDisk ELSE fileSizeGridFS

\* mutant: the ceiling itself is already too much
exceedsLimit_AtCeiling(m, file) == Size(file.payload) >= fileSizeLimit(m)

\* busboy truncates a file and raises 'limit' once more than fileSize bytes
\* of it have arrived
exceedsLimit(m, file) == Size(file.payload) > fileSizeLimit(m)

\* chunkSizeBytes of the bucket openUploadStream writes to
\* (no option given: the driver's 255 KiB)
chunkSizeBytes == 261120

(***************************************************************************)
(* MIME types as character strings                                         *)
(***************************************************************************)
ImagePng == <<"i","m","a","g","e","/","p","n","g">>

ImageJpeg == <<"i","m","a","g","e","/","j","p","e","g">>

ImageGif == <<"i","m","a","g","e","/","g","i","f">>

VideoMp4 == <<"v","i","d","e","o","/","m","p","4">>

VideoAvi == <<"v","i","d","e","o","/","a","v","i">>

VideoMsVideo == <<"v","i","d","e","o","/","x","-","m","s","v","i","d","e","o">>

VideoQuicktime == <<"v","i","d","e","o","/","q","u","i","c","k","t","i","m","e">>

VideoWmv == <<"v","i","d","e","o","/","x","-","m","s","-","w","m","v">>

OctetStream == <<"a","p","p","l","i","c","a","t","i","o","n","/","o","c","t","e","t",
                 "-","s","t","r","e","a","m">>

\* the Content-Type res.sendFile derives from the path it serves: the
\* lower-cased text after the last "." looked up in the MIME table,
\* application/octet-stream when the table has no entry
sendFileType(name) ==
  LET dot == LastIndexOf(name, ".")
      ext == toLowerCase(SubSeq(name, dot + 1, Len(name)))
  IN  CASE ext = <<"p","n","g">> -> ImagePng
        [] ext \in {<<"j","p","g">>, <<"j","p","e","g">>} -> ImageJpeg
        [] ext = <<"g","i","f">> -> ImageGif
        [] ext = <<"m","p","4">> -> VideoMp4
        [] ext = <<"a","v","i">> -> VideoMsVideo
        [] ext = <<"m","o","v">> -> VideoQuicktime
        [] ext = <<"w","m","v">> -> VideoWmv
        [] OTHER -> OctetStream

(***************************************************************************)
(* Identifiers and URLs                                                    *)
(*   a path segment is [kind, n, ext]:                                     *)
(*     "oid"  - the 24 hex digits of ObjectId number n                     *)
(*     "name" - the disk file name  uuid number n  followed by ext         *)
(*     "bad"  - text that is neither (a malformed identifier)              *)
(***************************************************************************)
\* ObjectId.prototype.toString / template interpolation of an ObjectId
OidString(n) == [kind |-> "oid", n |-> n, ext |-> <<>>]

\* uuidv4() + path.extname(file.originalname)
DiskName(n, ext) == [kind |-> "name", n |-> n, ext |-> ext]

BadString == [kind |-> "bad", n |-> 0, ext |-> <<>>]

\* whether  new ObjectId(s) / the ObjectId cast of a query succeeds
IsObjectIdString(s) == s.kind = "oid"

\* `/api/files/${x}` : the url whose last segment is x
ApiFilesUrl(x) == [route |-> "/api/files/", seg |-> x]

NoValue == [kind |-> "none", n |-> 0, ext |-> <<>>]

NoType == <<>>

(***************************************************************************)
(* State                                                                   *)
(***************************************************************************)
VARIABLES
  mode,      \* "disk" | "gridfs": the deployment, fixed at start-up
  schema,    \* which Media model ./models/Media resolves to, fixed at start-up
  dbUp,      \* the MongoDB server can be reached
  conn,      \* mongoose's connection: "none" | "connected" | "disconnected"
  disk,      \* uploads directory: file name -> bytes
  fsFiles,   \* GridFS files collection: ObjectId -> [length, contentType]
  fsChunks,  \* GridFS chunks collection: set of [files_id, n, data]
  media,     \* Media collection, in insertion order
  nextId,    \* number of the next fresh token (ObjectId or uuid)
  now,       \* Date.now()
  up,        \* the upload request in flight, or its response
  dl,        \* the download request in flight, or its response
  ls,        \* the listing request in flight, or its response
  ff,        \* one fileFilter call: its input and result
  properties, \* the properties table / collection: id -> document
  user,      \* the settings of user '1'
  crashed,   \* the process died of an exception nobody caught
  hist       \* history: what was stored, issued, removed, failed

vars == <<mode, schema, dbUp, conn, disk, fsFiles, fsChunks, media, nextId, now, up, dl, ls, ff,
          properties, user, crashed, hist>>

\* model bounds
MaxUploads == 2

MaxRemovals == 1

MaxListUploads == 4

MaxPage == 3

MaxLimit == 3

MaxProperties == 1

IdleUp ==
  [pc |-> "idle", files |-> <<>>, i |-> 0, refs |-> <<>>, gridId |-> 0,
   uploadedFiles |-> <<>>, status |-> 0, type |-> "none", err |-> "none",
   m0 |-> 0, downAtEntry |-> FALSE]

IdleDl ==
  [pc |-> "idle", param |-> NoValue, issuedAtStart |-> FALSE, goneAtStart |-> FALSE,
   recAtStart |-> FALSE, urlAtStart |-> FALSE, ctype |-> NoType, id |-> 0, length |-> 0, n |-> 0,
   sent |-> <<>>, headersSent |-> FALSE, status |-> 0, type |-> "none", lateStatus |-> 0]

IdleLs ==
  [pc |-> "idle", page |-> 0, limit |-> 0, files |-> <<>>, status |-> 0,
   type |-> "none", pagination |-> <<>>, seen |-> 0]

IdleFf == [pc |-> "idle", originalname |-> <<>>, mimetype |-> <<>>, accepted |-> FALSE]

NoHist ==
  [stored |-> <<>>, issued |-> {}, removed |-> {}, failed |-> {}, nUp |-> 0,
   nIssued |-> 0, nProp |-> 0]

\* the settings of user '1' before any PUT /api/user
DefaultUser == [name |-> "IBARIZE REAL ESTATE", theme |-> "light"]

\* the two Media models of the repository: models/Media.js declares the
\* required path gridFsId, the other model has no such path.  Both apps
\* load "./models/Media"; either model may be the one that is found.
Schemas == {"gridFsId", "plain"}

Init ==
  /\ mode \in {"disk", "gridfs"}
  /\ schema \in Schemas
  /\ dbUp = TRUE
  /\ conn = "connected"
  /\ disk = <<>>
  /\ fsFiles = <<>>
  /\ fsChunks = {}
  /\ media = <<>>
  /\ nextId = 1
  /\ now = 1
  /\ up = IdleUp
  /\ dl = IdleDl
  /\ ls = IdleLs
  /\ ff = IdleFf
  /\ properties = <<>>
  /\ user = DefaultUser
  /\ crashed = FALSE
  /\ hist = NoHist

(***************************************************************************)
(* Object store                                                            *)
(***************************************************************************)
\* GridFS splits a payload into chunks of chunkSizeBytes, numbered from 0
NumChunks(p) == (Size(p) + chunkSizeBytes - 1) \div chunkSizeBytes

\* mutant: each chunk loses its last byte
ChunkData_Short(p, k) ==
  Slice(p, k * chunkSizeBytes, Min((k + 1) * chunkSizeBytes, Size(p)) - 1)

ChunkData(p, k) == Slice(p, k * chunkSizeBytes, Min((k + 1) * chunkSizeBytes, Size(p)))

ChunksOf(id, p) ==
  { [files_id |-> id, n |-> k, data |-> ChunkData(p, k)] : k \in 0..(NumChunks(p) - 1) }

HasChunk(chunks, id, k) == \E c \in chunks : c.files_id = id /\ c.n = k

TheChunk(chunks, id, k) == CHOOSE c \in chunks : c.files_id = id /\ c.n = k

\* what a complete read of object id yields: its chunks 0 .. k-1 in order
RECURSIVE ReadChunks(_, _, _)
ReadChunks(chunks, id, k) ==
  IF k = 0 THEN <<>>
  ELSE Concat(ReadChunks(chunks, id, k - 1), TheChunk(chunks, id, k - 1).data)

Put(f, k, v) == [x \in DOMAIN f \cup {k} |-> IF x = k THEN v ELSE f[x]]

Without(f, ks) ==
  IF DOMAIN f \cap ks = {} THEN f ELSE [x \in DOMAIN f \ ks |-> f[x]]

\* the stored object a Media record was created for: the disk file it
\* names, or the GridFS object whose id its url carries
RefOf(r) == IF mode = "disk" THEN r.filename ELSE r.url.seg

MediaSet == {media[k] : k \in DOMAIN media}

(***************************************************************************)
(* Upload:  uploadWithLimits.array('files')  then the route handler        *)
(***************************************************************************)
\* what express answers when next(err) reaches no error middleware of the
\* app: its built-in handler, status 500 and an HTML page
DefaultErrorStatus == 500

DefaultErrorType == "html"

\* what the handlers' catch blocks answer: res.status(500).json({error})
CatchStatus == 500

\* mutant: multer configured without the fileFilter
MulterVerdict_NoFilter(m, file) ==
  IF exceedsLimit(m, file) THEN "LIMIT_FILE_SIZE" ELSE "store"

\* multer, for one file of the batch: fileFilter first, then the storage
\* engine, which busboy cuts off once the file exceeds limits.fileSize
MulterVerdict(m, file) ==
  IF ~fileFilter(file) THEN "filter"
  ELSE IF exceedsLimit(m, file) THEN "LIMIT_FILE_SIZE"
  ELSE "store"

\* multer, on abort: remove the files this request has stored so far
RemoveUploadedFiles(d, refs) == Without(d, {refs[k] : k \in DOMAIN refs})

\* mutant: the promise resolves as soon as the chunks are handed over
PcAfterChunks_Early == "save"

\* the event of the upload stream that resolves the promise: the handler
\* waits for 'finish', which follows the files document
PcAfterChunks == "finish"

\* no value given for a path of a document
Absent == 0

\* new Media({...}) of the handler, with the defaults of the schema; a
\* field the schema does not declare is dropped (strict mode)
NewMedia(file, ref, gridId) ==
  IF mode = "disk"
  THEN [_id |-> nextId, filename |-> ref, url |-> ApiFilesUrl(ref),
        mimetype |-> file.mimetype, size |-> Size(file.payload),
        uploadedAt |-> now, gridFsId |-> Absent]
  ELSE [_id |-> nextId, filename |-> file.originalname,
        url |-> ApiFilesUrl(OidString(gridId)),
        mimetype |-> file.mimetype, size |-> Size(file.payload),
        uploadedAt |-> now,
        gridFsId |-> IF schema = "gridFsId" THEN gridId ELSE Absent]

\* validation on save: gridFsId is { required: true } in models/Media.js
ValidationFails(r) == schema = "gridFsId" /\ r.gridFsId = Absent

\* the entry pushed on uploadedFiles for a saved record
Descriptor(file, r) ==
  [id |-> r._id, filename |-> r.filename,
   url |-> IF mode = "disk" THEN ApiFilesUrl(OidString(r._id))
           ELSE r.url,
   mimetype |-> file.mimetype, size |-> Size(file.payload),
   uploadedAt |-> r.uploadedAt]

UpDone(u, status, type, err) ==
  [u EXCEPT !.pc = "done", !.status = status, !.type = type, !.err = err]

\* the gridfs app runs  await connectDB()  before every route; with the
\* connection already open mongoose.connect resolves at once
NeedsConnect == mode = "gridfs" /\ conn # "connected"

\* a request arrives with a batch of files
UpStart(batches, max) ==
  /\ ~crashed
  /\ up.pc \in {"idle", "done"}
  /\ hist.nUp < max
  /\ \E batch \in batches :
       up' = [IdleUp EXCEPT !.pc = IF NeedsConnect THEN "connect" ELSE "multer",
                            !.files = batch, !.i = 1,
                            !.m0 = Len(media),
                            !.downAtEntry = ~dbUp,
                            !.refs = [k \in DOMAIN batch |-> NoValue]]
  /\ hist' = [hist EXCEPT !.nUp = @ + 1]
  /\ UNCHANGED <<mode, schema, dbUp, conn, disk, fsFiles, fsChunks, media, nextId, now,
                 dl, ls, ff, properties, user, crashed>>

\* the handler starts once multer has taken the whole batch: in gridfs mode
\* it opens the upload stream of the first file, which mints the stream's id
HandlerEnter(u) ==
  IF mode = "disk"
  THEN [u EXCEPT !.pc = "save", !.i = 1]
  ELSE [u EXCEPT !.pc = "put", !.i = 1, !.gridId = nextId,
                 !.refs[1] = OidString(nextId)]

\* the middleware of the gridfs app:  await connectDB(); next().
\* connectDB catches a failed mongoose.connect itself and calls
\* process.exit(1), so the middleware's own catch (next(e)) never runs.
ConnectDB ==
  /\ ~crashed
  /\ up.pc = "connect"
  /\ IF dbUp
     THEN /\ conn' = "connected"
          /\ up' = [up EXCEPT !.pc = "multer"]
          /\ crashed' = crashed
     ELSE /\ crashed' = TRUE
          /\ UNCHANGED <<conn, up>>
  /\ UNCHANGED <<mode, schema, dbUp, disk, fsFiles, fsChunks, media, nextId, now, dl,
                 ls, ff, properties, user, hist>>

\* multer takes file i of the batch
MulterFile ==
  /\ ~crashed
  /\ up.pc = "multer"
  /\ LET file    == up.files[up.i]
         verdict == MulterVerdict(mode, file)
         name    == DiskName(nextId, extname(file.originalname))
         last    == up.i = Len(up.files)
     IN  IF verdict # "store"
         THEN /\ disk' = RemoveUploadedFiles(disk, up.refs)
              /\ up' = UpDone(up, DefaultErrorStatus, DefaultErrorType, verdict)
              /\ UNCHANGED <<nextId, hist>>
         ELSE IF mode = "disk"
         THEN /\ disk' = Put(disk, name, file.payload)
              /\ hist' = [hist EXCEPT !.stored = Put(@, name, disk'[name])]
              /\ nextId' = nextId + 1
              /\ LET u == [up EXCEPT !.refs[up.i] = name]
                 IN  up' = IF last THEN HandlerEnter(u) ELSE [u EXCEPT !.i = @ + 1]
         ELSE /\ up' = IF last THEN HandlerEnter(up) ELSE [up EXCEPT !.i = @ + 1]
              /\ nextId' = IF last THEN nextId + 1 ELSE nextId
              /\ UNCHANGED <<disk, hist>>
  /\ UNCHANGED <<mode, schema, dbUp, conn, fsFiles, fsChunks, media, now, dl, ls, ff,
                 properties, user, crashed>>

\* uploadStream.end(file.buffer): the chunks of the file are inserted
GridPutChunks ==
  /\ ~crashed
  /\ dbUp
  /\ up.pc = "put"
  /\ fsChunks' = fsChunks \cup ChunksOf(up.gridId, up.files[up.i].payload)
  /\ up' = [up EXCEPT !.pc = PcAfterChunks]
  /\ UNCHANGED <<mode, schema, dbUp, conn, disk, fsFiles, media, nextId, now, dl, ls,
                 ff, properties, user, crashed, hist>>

\* the files document is inserted and the stream emits 'finish'
GridFinish ==
  /\ ~crashed
  /\ dbUp
  /\ up.pc = "finish"
  /\ LET file == up.files[up.i]
     IN  /\ fsFiles' = Put(fsFiles, up.gridId,
                           [length |-> Size(file.payload), contentType |-> file.mimetype,
                            filename |-> file.originalname])
         /\ hist' = [hist EXCEPT !.stored =
                       Put(@, OidString(up.gridId),
                           ReadChunks(fsChunks, up.gridId, NumChunks(file.payload)))]
  /\ up' = [up EXCEPT !.pc = "save"]
  /\ UNCHANGED <<mode, schema, dbUp, conn, disk, fsChunks, media, nextId, now, dl, ls,
                 ff, properties, user, crashed>>

\* variant: the save replaces a record of the same filename
InsertOne_Replace(m, r) ==
  IF \E k \in DOMAIN m : m[k].filename = r.filename
  THEN [k \in DOMAIN m |-> IF m[k].filename = r.filename THEN r ELSE m[k]]
  ELSE Append(m, r)

\* media.save() of a new document: an insert into the collection
InsertOne(m, r) == Append(m, r)

\* await media.save(), the push on uploadedFiles, and either the next
\* iteration of the loop or res.json({files: uploadedFiles})
MediaSave ==
  /\ ~crashed
  /\ up.pc = "save"
  /\ LET file == up.files[up.i]
         r    == NewMedia(file, up.refs[up.i], up.gridId)
         d    == Descriptor(file, r)
         u    == [up EXCEPT !.uploadedFiles = Append(@, d)]
         last == up.i = Len(up.files)
     IN  /\ dbUp \/ ValidationFails(r)
         /\ IF ValidationFails(r)
            THEN /\ up' = UpDone(up, CatchStatus, "json", "validation")
                 /\ nextId' = nextId + 1
                 /\ UNCHANGED <<media, now, hist>>
            ELSE /\ media' = InsertOne(media, r)
                 /\ now' = now + 1
                 /\ IF last
                    THEN /\ up' = UpDone(u, 200, "json", "none")
                         /\ nextId' = nextId + 1
                         /\ hist' = [hist EXCEPT
                              !.nIssued = @ + 1,
                              !.issued = @ \cup
                                { [d |-> u.uploadedFiles[k], payload |-> up.files[k].payload,
                                   ref |-> up.refs[k], seq |-> hist.nIssued + 1]
                                  : k \in DOMAIN up.files }]
                    ELSE /\ hist' = hist
                         /\ IF mode = "disk"
                            THEN /\ up' = [u EXCEPT !.i = @ + 1]
                                 /\ nextId' = nextId + 1
                            ELSE /\ up' = [u EXCEPT !.i = @ + 1, !.pc = "put",
                                                    !.gridId = nextId + 1,
                                                    !.refs[up.i + 1] = OidString(nextId + 1)]
                                 /\ nextId' = nextId + 2
  /\ UNCHANGED <<mode, schema, dbUp, conn, disk, fsFiles, fsChunks, dl, ls, ff,
                 properties, user, crashed>>

\* a store operation of the upload fails (disk write, chunk insert, files
\* insert, or the save of the record); nothing is retried
StoreFail ==
  /\ ~crashed
  /\ \/ /\ up.pc = "multer"
        /\ mode = "disk"
        /\ MulterVerdict(mode, up.files[up.i]) = "store"
        /\ LET name == DiskName(nextId, extname(up.files[up.i].originalname))
               kept == RemoveUploadedFiles(disk, up.refs)
           IN  /\ disk' \in {kept, Put(kept, name, <<>>)}
               /\ hist' = [hist EXCEPT !.failed = @ \cup {name}]
               /\ up' = UpDone([up EXCEPT !.refs[up.i] = name],
                               DefaultErrorStatus, DefaultErrorType, "store")
        /\ nextId' = nextId + 1
        /\ UNCHANGED <<fsChunks>>
     \/ /\ up.pc = "put"
        /\ \E k \in 0..(IF dbUp THEN Min(1, NumChunks(up.files[up.i].payload)) ELSE 0) :
             fsChunks' = fsChunks \cup
               {c \in ChunksOf(up.gridId, up.files[up.i].payload) : c.n < k}
        /\ hist' = [hist EXCEPT !.failed = @ \cup {OidString(up.gridId)}]
        /\ up' = UpDone(up, CatchStatus, "json", "store")
        /\ UNCHANGED <<disk, nextId>>
     \/ /\ up.pc = "finish"
        /\ hist' = [hist EXCEPT !.failed = @ \cup {OidString(up.gridId)}]
        /\ up' = UpDone(up, CatchStatus, "json", "store")
        /\ UNCHANGED <<disk, fsChunks, nextId>>
     \/ /\ up.pc = "save"
        /\ up' = UpDone(up, CatchStatus, "json", "save")
        /\ nextId' = nextId + 1
        /\ UNCHANGED <<disk, fsChunks, hist>>
  /\ UNCHANGED <<mode, schema, dbUp, conn, fsFiles, media, now, dl, ls, ff, properties,
                 user, crashed>>

(***************************************************************************)
(* Download:  GET /api/files/:id  (disk)   GET /api/files/:gridId (gridfs) *)
(***************************************************************************)
AppJson == <<"a","p","p","l","i","c","a","t","i","o","n","/","j","s","o","n">>

DlDone(d, status, type, ctype) ==
  [d EXCEPT !.pc = "done", !.status = status, !.type = type, !.ctype = ctype]

\* Media.findById(id)
FindById(n) == {r \in MediaSet : r._id = n}

\* Media.findOne({ gridFsId: gridId }): the possible results, each a set
\* of at most one document.  With the path in the schema the filter is
\* cast and matched.  Without it the filter names an unknown path: a
\* strict query drops it and finds the first document of the collection,
\* a non-strict query compares the string as it is and finds nothing.
FindByGridFsId(n) ==
  IF schema = "gridFsId" THEN { {r \in MediaSet : r.gridFsId = n} }
  ELSE { {}, {media[k] : k \in DOMAIN media \cap {1}} }

\* the record of the file a path segment names: by _id on disk, by the
\* object its url carries in gridfs
RecordsFor(param) ==
  IF ~IsObjectIdString(param) THEN {}
  ELSE IF mode = "disk" THEN FindById(param.n)
  ELSE {r \in MediaSet : RefOf(r) = param}

\* a request for /api/files/<param> arrives
DlStart(params) ==
  /\ ~crashed
  /\ dl.pc \in {"idle", "done", "hung"}
  /\ \E param \in params :
       dl' = [IdleDl EXCEPT
                !.pc = "find", !.param = param,
                !.issuedAtStart = \E x \in hist.issued : x.d.url.seg = param,
                !.recAtStart = RecordsFor(param) # {},
                !.urlAtStart = \E r \in MediaSet : r.url.seg = param,
                !.goneAtStart = \/ \E r \in RecordsFor(param) : RefOf(r) \in hist.removed
                                \/ mode = "gridfs" /\ param \in hist.removed]
  /\ UNCHANGED <<mode, schema, dbUp, conn, disk, fsFiles, fsChunks, media, nextId, now,
                 up, ls, ff, properties, user, crashed, hist>>

\* disk: the whole handler after  await Media.findById
DlFindDisk(d) ==
  IF ~IsObjectIdString(d.param) THEN DlDone(d, CatchStatus, "json", AppJson)
  ELSE IF FindById(d.param.n) = {} THEN DlDone(d, 404, "json", AppJson)
  ELSE LET r == CHOOSE r \in FindById(d.param.n) : TRUE
       IN  IF r.filename \notin DOMAIN disk
           THEN DlDone(d, 404, "json", AppJson)
           ELSE [DlDone(d, 200, "file", sendFileType(r.filename.ext))
                   EXCEPT !.sent = disk[r.filename], !.headersSent = TRUE]

\* gridfs: await Media.findOne, the Content-Type header, new ObjectId,
\* openDownloadStream and pipe
DlFindGridFS(d, docs) ==
  IF ~IsObjectIdString(d.param) THEN DlDone(d, CatchStatus, "json", AppJson)
  ELSE LET mediaDoc == CHOOSE r \in docs : TRUE
       IN  [d EXCEPT !.pc = "open", !.id = d.param.n,
                     !.ctype = IF docs # {} /\ mediaDoc.mimetype # <<>>
                               THEN mediaDoc.mimetype ELSE NoType]

DlFind ==
  /\ ~crashed
  /\ dl.pc = "find"
  /\ IF mode = "disk"
     THEN dl' = DlFindDisk(dl)
     ELSE \E docs \in FindByGridFsId(dl.param.n) : dl' = DlFindGridFS(dl, docs)
  /\ UNCHANGED <<mode, schema, dbUp, conn, disk, fsFiles, fsChunks, media, nextId, now,
                 up, ls, ff, properties, user, crashed, hist>>

\* mutant: the listener answers like the catch block
DlStreamError_500(d) == {<<DlDone(d, CatchStatus, "json", AppJson), FALSE>>}

\* the download stream's 'error' listener: res.status(404).json(...)
\* Once the response has started, setting its headers throws inside the
\* listener; nothing catches that, and the runtime either ends the process
\* or leaves the response unfinished.  lateStatus is the status the
\* listener set on a response that had already started.
DlStreamError(d) ==
  IF ~d.headersSent THEN {<<DlDone(d, 404, "json", AppJson), FALSE>>}
  ELSE LET h == [d EXCEPT !.pc = "hung", !.lateStatus = 404]
       IN  {<<h, FALSE>>, <<h, TRUE>>}

\* the download stream looks up the files document
DlOpen ==
  /\ ~crashed
  /\ dl.pc = "open"
  /\ IF dl.id \notin DOMAIN fsFiles
     THEN \E o \in DlStreamError(dl) : dl' = o[1] /\ crashed' = o[2]
     ELSE /\ crashed' = crashed
          /\ dl' = IF fsFiles[dl.id].length = 0
                   THEN DlDone(dl, 200, "file", dl.ctype)
                   ELSE [dl EXCEPT !.pc = "stream", !.length = fsFiles[dl.id].length]
  /\ UNCHANGED <<mode, schema, dbUp, conn, disk, fsFiles, fsChunks, media, nextId, now,
                 up, ls, ff, properties, user, hist>>

\* the download stream reads the next chunk and pipes it to the response
DlStream ==
  /\ ~crashed
  /\ dl.pc = "stream"
  /\ IF ~HasChunk(fsChunks, dl.id, dl.n)
     THEN \E o \in DlStreamError(dl) : dl' = o[1] /\ crashed' = o[2]
     ELSE /\ crashed' = crashed
          /\ LET d == [dl EXCEPT !.sent = Concat(@, TheChunk(fsChunks, dl.id, dl.n).data),
                                 !.n = @ + 1, !.headersSent = TRUE, !.status = 200,
                                 !.type = "file"]
             IN  dl' = IF Size(d.sent) >= d.length THEN [d EXCEPT !.pc = "done"] ELSE d
  /\ UNCHANGED <<mode, schema, dbUp, conn, disk, fsFiles, fsChunks, media, nextId, now,
                 up, ls, ff, properties, user, hist>>

(***************************************************************************)
(* Out of band: an operator deletes the stored object of a record (no     *)
(* endpoint does)                                                          *)
(***************************************************************************)
RemoveObject ==
  /\ ~crashed
  /\ Cardinality(hist.removed) < MaxRemovals
  /\ IF mode = "disk"
     THEN /\ \E name \in DOMAIN disk \cap {RefOf(r) : r \in MediaSet} :
               /\ disk' = Without(disk, {name})
               /\ hist' = [hist EXCEPT !.removed = @ \cup {name}]
          /\ UNCHANGED <<fsFiles, fsChunks>>
     ELSE /\ \E id \in {x \in DOMAIN fsFiles : \E r \in MediaSet : RefOf(r) = OidString(x)} :
               /\ fsFiles' = Without(fsFiles, {id})
               /\ fsChunks' = {c \in fsChunks : c.files_id # id}
               /\ hist' = [hist EXCEPT !.removed = @ \cup {OidString(id)}]
          /\ UNCHANGED disk
  /\ UNCHANGED <<mode, schema, dbUp, conn, media, nextId, now, up, dl, ls, ff,
                 properties, user, crashed>>

(***************************************************************************)
(* The MongoDB server becomes unreachable or reachable again, and the      *)
(* driver's monitoring brings an opened connection up to date              *)
(***************************************************************************)
\* (up.downAtEntry records that the server has been unreachable ever since
\* the request arrived)
StoreOutage ==
  /\ ~crashed
  /\ dbUp' = ~dbUp
  /\ up' = [up EXCEPT !.downAtEntry = FALSE]
  /\ UNCHANGED <<mode, schema, conn, disk, fsFiles, fsChunks, media, nextId, now, dl,
                 ls, ff, properties, user, crashed, hist>>

Monitor ==
  /\ ~crashed
  /\ conn # "none"
  /\ conn' = IF dbUp THEN "connected" ELSE "disconnected"
  /\ conn' # conn
  /\ UNCHANGED <<mode, schema, dbUp, disk, fsFiles, fsChunks, media, nextId, now, up,
                 dl, ls, ff, properties, user, crashed, hist>>

(***************************************************************************)
(* Listing:  GET /api/files  (server.js only)                              *)
(***************************************************************************)
\* a query parameter: absent / not a number, or the integer it spells
NoParam == [given |-> FALSE, n |-> 0]

IntParam(n) == [given |-> TRUE, n |-> n]

DefaultPage == 1

DefaultLimit == 12

\* parseInt(q) || dflt : NaN and 0 are falsy
ParseIntOr(q, dflt) == IF ~q.given \/ q.n = 0 THEN dflt ELSE q.n

\* Math.ceil(a / b), b # 0
CeilDiv(a, b) == IF b > 0 THEN -((-a) \div b) ELSE -(a \div (-b))

\* .sort({ uploadedAt: -1 })
SortByUploadedAtDesc(s) ==
  [k \in 1..Len(s) |->
     CHOOSE r \in {s[j] : j \in DOMAIN s} :
       Cardinality({j \in DOMAIN s : s[j].uploadedAt > r.uploadedAt}) = k - 1]

\* .skip(skip).limit(limit): a negative limit is served as its absolute
\* value in a single batch
SkipLimit(s, skip, limit) ==
  LET n == IF limit < 0 THEN -limit ELSE limit
  IN  SubSeq(s, skip + 1, Min(skip + n, Len(s)))

\* the pagination object of the response
Pagination(page, limit, total) ==
  [currentPage |-> page,
   totalPages  |-> CeilDiv(total, limit),
   totalFiles  |-> total,
   hasNext     |-> page * limit < total,
   hasPrev     |-> page > 1]

LsStart(pages, limits) ==
  /\ ~crashed
  /\ mode = "disk"
  /\ ls.pc \in {"idle", "done"}
  /\ \E p \in pages, l \in limits :
       ls' = [IdleLs EXCEPT !.pc = "find", !.page = ParseIntOr(p, DefaultPage),
                            !.limit = ParseIntOr(l, DefaultLimit)]
  /\ UNCHANGED <<mode, schema, dbUp, conn, disk, fsFiles, fsChunks, media, nextId, now,
                 up, dl, ff, properties, user, crashed, hist>>

\* await Media.find().sort().skip().limit(): a negative skip is refused by
\* the store and the catch block answers
LsFind ==
  /\ ~crashed
  /\ ls.pc = "find"
  /\ LET skip == (ls.page - 1) * ls.limit
     IN  ls' = IF skip < 0
               THEN [ls EXCEPT !.pc = "done", !.status = CatchStatus, !.type = "json"]
               ELSE [ls EXCEPT !.pc = "count",
                               !.files = SkipLimit(SortByUploadedAtDesc(media), skip, ls.limit),
                               !.seen = Len(media)]
  /\ UNCHANGED <<mode, schema, dbUp, conn, disk, fsFiles, fsChunks, media, nextId, now,
                 up, dl, ff, properties, user, crashed, hist>>

\* await Media.countDocuments() and res.json
LsCount ==
  /\ ~crashed
  /\ ls.pc = "count"
  /\ ls' = [ls EXCEPT !.pc = "done", !.status = 200, !.type = "json",
                      !.pagination = Pagination(ls.page, ls.limit, Len(media))]
  /\ UNCHANGED <<mode, schema, dbUp, conn, disk, fsFiles, fsChunks, media, nextId, now,
                 up, dl, ff, properties, user, crashed, hist>>

(***************************************************************************)
(* Property and user endpoints: they write the properties and the user     *)
(* settings, and nothing of the media                                      *)
(***************************************************************************)
\* the images of a request body: the urls of the media uploaded so far
Images == [k \in DOMAIN media \cap {1} |-> media[k].url]

\* POST /api/properties
PropertyCreate ==
  /\ ~crashed
  /\ hist.nProp < MaxProperties
  /\ properties' = Put(properties, hist.nProp + 1, [title |-> "new", images |-> Images])
  /\ hist' = [hist EXCEPT !.nProp = @ + 1]
  /\ UNCHANGED <<mode, schema, dbUp, conn, disk, fsFiles, fsChunks, media, nextId, now,
                 up, dl, ls, ff, user, crashed>>

\* PUT /api/properties/:id
PropertyUpdate ==
  /\ ~crashed
  /\ \E id \in 1..hist.nProp :
       properties' = IF id \in DOMAIN properties
                     THEN [properties EXCEPT ![id] = [title |-> "edited", images |-> Images]]
                     ELSE properties
  /\ UNCHANGED <<mode, schema, dbUp, conn, disk, fsFiles, fsChunks, media, nextId, now,
                 up, dl, ls, ff, user, crashed, hist>>

\* DELETE /api/properties/:id
PropertyDelete ==
  /\ ~crashed
  /\ \E id \in 1..hist.nProp : properties' = Without(properties, {id})
  /\ UNCHANGED <<mode, schema, dbUp, conn, disk, fsFiles, fsChunks, media, nextId, now,
                 up, dl, ls, ff, user, crashed, hist>>

\* PUT /api/user
UserUpdate ==
  /\ ~crashed
  /\ user' = [name |-> "Manzi", theme |-> "dark"]
  /\ UNCHANGED <<mode, schema, dbUp, conn, disk, fsFiles, fsChunks, media, nextId, now,
                 up, dl, ls, ff, properties, crashed, hist>>

(***************************************************************************)
(* One fileFilter call                                                     *)
(***************************************************************************)
FilterCall ==
  /\ ff.pc = "in"
  /\ ff' = [ff EXCEPT !.pc = "out",
                      !.accepted = fileFilter([originalname |-> ff.originalname,
                                               mimetype |-> ff.mimetype])]
  /\ UNCHANGED <<mode, schema, dbUp, conn, disk, fsFiles, fsChunks, media, nextId, now,
                 up, dl, ls, properties, user, crashed, hist>>

(***************************************************************************)
(* Requests the environment sends                                          *)
(***************************************************************************)
NamePng == <<"a", ".", "p", "n", "g">>

NameGif == <<"e", ".", "g", "i", "f">>

NameJpg == <<"a", ".", "j", "p", "g">>

NameJpgUpper == <<"a", ".", "J", "P", "G">>

NameJpeg == <<"a", ".", "j", "p", "e", "g">>

NameMp4 == <<"v", ".", "m", "p", "4">>

NameAvi == <<"v", ".", "a", "v", "i">>

NameMov == <<"v", ".", "m", "o", "v">>

NameWmv == <<"v", ".", "w", "m", "v">>

NameExe == <<"x", ".", "e", "x", "e">>

NameExePng == <<"x", ".", "e", "x", "e", ".", "p", "n", "g">>

NamePngx == <<"s", ".", "p", "n", "g", "x">>

NameXmp4 == <<"s", ".", "x", "m", "p", "4">>

NameNoExt == <<"p", "n", "g">>

NameDotfile == <<".", "p", "n", "g">>

SampleNames ==
  { NamePng, NameGif, NameJpg, NameJpgUpper, NameJpeg, NameMp4, NameAvi, NameMov,
    NameWmv, NameExe, NameExePng, NamePngx, NameXmp4, NameNoExt, NameDotfile }

ImagePngUpper == <<"I","M","A","G","E","/","P","N","G">>

TextXpngx == <<"t","e","x","t","/","x","p","n","g","x">>

SampleMimes ==
  { ImagePng, ImageJpeg, ImageGif, VideoMp4, VideoAvi, VideoMsVideo, VideoQuicktime,
    VideoWmv, OctetStream, ImagePngUpper, TextXpngx }

File(name, mime, payload) == [originalname |-> name, mimetype |-> mime, payload |-> payload]

FPng == File(NamePng, ImagePng, Concat(Run(1, 1), Run(2, 1)))

FEmpty == File(NameGif, ImageGif, <<>>)

FJpgAsPng == File(NameJpg, ImagePng, Run(3, 1))

FMulti == File(NameMp4, VideoMp4, Concat(Run(1, chunkSizeBytes), Run(2, 1)))

FExe == File(NameExe, OctetStream, Run(9, 1))

FAt4 == File(NameMp4, VideoMp4, Concat(Run(1, fileSizeGridFS - 1), Run(2, 1)))

FOver4 == File(NameMp4, VideoMp4, Concat(Run(1, fileSizeGridFS), Run(2, 1)))

FAt50 == File(NameAvi, VideoAvi, Concat(Run(1, fileSizeDisk - 1), Run(2, 1)))

FOver50 == File(NameAvi, VideoAvi, Concat(Run(1, fileSizeDisk), Run(2, 1)))

\* batches of the transfer specification
Batches == { <<FJpgAsPng>>, <<FEmpty, FMulti>>, <<FExe>> }

\* batches of the upload specification: rejected files at either place of
\* a batch, payloads at and just above both ceilings
UploadBatches ==
  { <<FPng>>, <<FEmpty>>, <<FExe>>, <<FPng, FExe>>, <<FExe, FPng>>,
    <<FEmpty, FMulti>>, <<FAt4>>, <<FOver4>>, <<FAt50>>, <<FOver50>>,
    <<FPng, FOver50>>, <<FOver4, FPng>> }

ListBatches == { <<FPng>>, <<FExe>> }

\* the object ids a client may know: the ids of the records on disk; in
\* gridfs the ids of the objects stored, removed, or being uploaded
MintedOids ==
  IF mode = "disk" THEN {r._id : r \in MediaSet}
  ELSE DOMAIN fsFiles \cup {x.n : x \in hist.removed} \cup ({up.gridId} \ {0})

\* path segments a client may ask for: those ids, one not yet in use, the
\* segments of the stored urls, and a malformed one
DlParams ==
  {OidString(n) : n \in MintedOids \cup {nextId}}
    \cup {r.url.seg : r \in MediaSet} \cup {BadString}

PageParams == {NoParam, IntParam(-1)} \cup {IntParam(n) : n \in 0..MaxPage}

LimitParams == {NoParam, IntParam(-2)} \cup {IntParam(n) : n \in 0..MaxLimit}

(***************************************************************************)
(* Specifications                                                          *)
(***************************************************************************)
UploadRequest == UpStart(Batches, MaxUploads)

DownloadRequest == DlStart(DlParams)

\* uploads, downloads and out-of-band removals, in either mode
Next ==
  \/ UploadRequest
  \/ MulterFile
  \/ GridPutChunks
  \/ GridFinish
  \/ MediaSave
  \/ StoreFail
  \/ DownloadRequest
  \/ DlFind
  \/ DlOpen
  \/ DlStream
  \/ RemoveObject

Spec == Init /\ [][Next]_vars

\* the upload endpoint alone, with rejected and oversize files
AnyUploadRequest == UpStart(UploadBatches, MaxUploads)

NextUpload ==
  \/ AnyUploadRequest
  \/ MulterFile
  \/ GridPutChunks
  \/ GridFinish
  \/ MediaSave
  \/ StoreFail
  \/ RemoveObject

SpecUpload == Init /\ [][NextUpload]_vars

\* uploads while the MongoDB server comes and goes.  server.js connects
\* once at start-up (a failure there ends the process before any request);
\* the gridfs app connects on its first request.
InitConnect ==
  /\ mode \in {"disk", "gridfs"}
  /\ schema \in Schemas
  /\ dbUp \in BOOLEAN
  /\ conn = IF mode = "disk" THEN "connected" ELSE "none"
  /\ disk = <<>>
  /\ fsFiles = <<>>
  /\ fsChunks = {}
  /\ media = <<>>
  /\ nextId = 1
  /\ now = 1
  /\ up = IdleUp
  /\ dl = IdleDl
  /\ ls = IdleLs
  /\ ff = IdleFf
  /\ properties = <<>>
  /\ user = DefaultUser
  /\ crashed = FALSE
  /\ hist = NoHist

ConnectBatches == { <<FPng>>, <<FEmpty, FMulti>>, <<FExe>> }

ConnectUploadRequest == UpStart(ConnectBatches, MaxUploads)

NextConnect ==
  \/ ConnectUploadRequest
  \/ ConnectDB
  \/ MulterFile
  \/ GridPutChunks
  \/ GridFinish
  \/ MediaSave
  \/ StoreFail
  \/ StoreOutage
  \/ Monitor

SpecConnect == InitConnect /\ [][NextConnect]_vars

\* multi-file uploads with store failures and nothing else going on
BatchBatches == { <<FPng>>, <<FPng, FJpgAsPng>>, <<FPng, FEmpty, FMulti>> }

BatchUploadRequest == UpStart(BatchBatches, MaxUploads)

NextBatch ==
  \/ BatchUploadRequest
  \/ MulterFile
  \/ GridPutChunks
  \/ GridFinish
  \/ MediaSave
  \/ StoreFail

SpecBatch == Init /\ [][NextBatch]_vars

\* every endpoint: uploads, downloads, listings, property and user writes
AllBatches == { <<FJpgAsPng>> }

AllUploadRequest == UpStart(AllBatches, MaxUploads)

AllListRequest == LsStart({NoParam}, {NoParam})

AllDownloadRequest == DlStart({OidString(n) : n \in MintedOids})

NextAll ==
  \/ AllUploadRequest
  \/ MulterFile
  \/ GridPutChunks
  \/ GridFinish
  \/ MediaSave
  \/ StoreFail
  \/ AllDownloadRequest
  \/ DlFind
  \/ DlOpen
  \/ DlStream
  \/ AllListRequest
  \/ LsFind
  \/ LsCount
  \/ PropertyCreate
  \/ PropertyUpdate
  \/ PropertyDelete
  \/ UserUpdate

SpecAll == Init /\ [][NextAll]_vars

\* the listing endpoint of server.js, with uploads going on
InitList == Init /\ mode = "disk"

ListUploadRequest == UpStart(ListBatches, MaxListUploads)

ListRequest == LsStart(PageParams, LimitParams)

NextList ==
  \/ ListUploadRequest
  \/ MulterFile
  \/ MediaSave
  \/ StoreFail
  \/ ListRequest
  \/ LsFind
  \/ LsCount

SpecList == InitList /\ [][NextList]_vars

\* fileFilter alone, over names and MIME types
InitFilterCall ==
  /\ mode = "disk"
  /\ schema = "plain"
  /\ dbUp = TRUE
  /\ conn = "connected"
  /\ disk = <<>>
  /\ fsFiles = <<>>
  /\ fsChunks = {}
  /\ media = <<>>
  /\ nextId = 1
  /\ now = 1
  /\ up = IdleUp
  /\ dl = IdleDl
  /\ ls = IdleLs
  /\ ff \in {[pc |-> "in", originalname |-> n, mimetype |-> m, accepted |-> FALSE]
              : n \in SampleNames, m \in SampleMimes}
  /\ properties = <<>>
  /\ user = DefaultUser
  /\ crashed = FALSE
  /\ hist = NoHist

NextFilter == FilterCall

SpecFilter == InitFilterCall /\ [][NextFilter]_vars

(***************************************************************************)
(* Properties                                                              *)
(***************************************************************************)
StoredNow(ref) ==
  IF mode = "disk" THEN ref \in DOMAIN disk
  ELSE \/ ref.n \in DOMAIN fsFiles
       \/ \E c \in fsChunks : c.files_id = ref.n

HasRecord(ref) == \E r \in MediaSet : RefOf(r) = ref

\* C1: write before record. Every step that adds a MediaRecord adds it for
\* the file being handled, whose bytes the object store had completely
\* taken (what was read back when the store finished equals the payload);
\* and no record ever refers to an object whose store operation failed.
C1_WriteBeforeRecord ==
  /\ [][\A k \in DOMAIN media' \ DOMAIN media :
          LET ref == RefOf(media'[k])
          IN  /\ ref \in DOMAIN hist.stored
              /\ hist.stored[ref] = up.files[up.i].payload]_vars
  /\ [](\A r \in MediaSet : RefOf(r) \notin hist.failed)

C1_Witness ==
  /\ mode = "gridfs"
  /\ hist.failed # {}
  /\ \E r \in MediaSet : RefOf(r) \in DOMAIN hist.stored /\ r.size > chunkSizeBytes

\* the download asked for exactly the url of issued descriptor x, after x
\* was issued, and x's object has not been removed out of band
AskedFor(x) ==
  /\ dl.pc # "idle"
  /\ x.d.url.route = "/api/files/"
  /\ dl.param = x.d.url.seg
  /\ dl.issuedAtStart
  /\ x.ref \notin hist.removed

\* C2: round trip. A download of the url of an upload descriptor, asked
\* after the descriptor was issued, ends with status 200 and exactly the
\* uploaded bytes (never unfinished), in both modes.
C2_RoundTrip ==
  \A x \in hist.issued :
    AskedFor(x) =>
      /\ dl.pc # "hung"
      /\ dl.pc = "done" => dl.status = 200 /\ dl.sent = x.payload

C2_Witness ==
  \E x \in hist.issued, y \in hist.issued :
    /\ AskedFor(x)
    /\ x.payload = <<>>
    /\ Size(y.payload) > chunkSizeBytes
    /\ dl.pc = "done"
    /\ dl.status = 200
    /\ dl.sent = x.payload

\* C3: the url stored in a MediaRecord is the url of the upload descriptor,
\* and a download of it returns the record's bytes.
C3_StoredUrlFetches ==
  \A x \in hist.issued : \A r \in MediaSet :
    r._id = x.d.id =>
      /\ r.url = x.d.url
      /\ (/\ dl.pc = "done"
          /\ dl.param = r.url.seg
          /\ x.ref \notin hist.removed
          /\ dl.urlAtStart) => dl.status = 200 /\ dl.sent = x.payload

\* the identifier of the download was never the identifier of a stored
\* object (disk: of a record), or its object was removed before the request
Unresolvable ==
  /\ dl.pc # "idle"
  /\ IsObjectIdString(dl.param)
  /\ \/ dl.goneAtStart
     \/ IF mode = "disk" THEN FindById(dl.param.n) = {}
        ELSE dl.param.n \notin DOMAIN fsFiles /\ dl.param \notin hist.removed

\* C4: a download of a well-formed identifier that resolves to no stored
\* object is answered 404: never another status, never an unfinished
\* response, never a crash.
C4_NotFound ==
  Unresolvable =>
    /\ ~crashed
    /\ dl.pc # "hung"
    /\ dl.pc = "done" => dl.status = 404

C4_Witness ==
  /\ dl.pc = "done"
  /\ dl.goneAtStart
  /\ dl.recAtStart
  /\ dl.status = 404

AllowListedExtensions ==
  { <<".","j","p","e","g">>, <<".","j","p","g">>, <<".","p","n","g">>,
    <<".","g","i","f">>, <<".","m","p","4">>, <<".","a","v","i">>,
    <<".","m","o","v">>, <<".","w","m","v">> }

\* C5: the filter accepts a file only when its extension is one of the
\* allow-listed extensions and its MIME type matches the allow-list.
C5_AllowListOnly ==
  (ff.pc = "out" /\ ff.accepted) =>
    /\ toLowerCase(extname(ff.originalname)) \in AllowListedExtensions
    /\ allowedTypesTest(ff.mimetype)

\* C6: nothing is persisted for a file the allow-list check rejects: at no
\* moment is there a stored object or a record for it, and the request
\* that carried it ends with an error.
C6_RejectedNotPersisted ==
  \A k \in DOMAIN up.files :
    ~fileFilter(up.files[k]) =>
      /\ up.refs[k] \notin DOMAIN hist.stored
      /\ ~StoredNow(up.refs[k])
      /\ ~HasRecord(up.refs[k])
      /\ up.pc = "done" => up.status >= 400 /\ Len(media) = up.m0

C6_Witness ==
  /\ mode = "disk"
  /\ up.pc = "done"
  /\ up.err = "filter"
  /\ up.i = 2
  /\ fileFilter(up.files[1])

Ceiling == IF mode = "gridfs" THEN 4194304 ELSE 52428800

\* C7: a request with a file above the ceiling of the mode ends with an
\* error and creates no record; when multer reaches that file the error is
\* LIMIT_FILE_SIZE; and LIMIT_FILE_SIZE is raised only for a file above
\* the ceiling.
C7_SizeCeiling ==
  up.pc = "done" =>
    /\ up.err = "LIMIT_FILE_SIZE" =>
         /\ Size(up.files[up.i].payload) > Ceiling
         /\ up.status >= 400
         /\ Len(media) = up.m0
    /\ \A k \in DOMAIN up.files :
         Size(up.files[k].payload) > Ceiling =>
           /\ up.status >= 400
           /\ Len(media) = up.m0
           /\ up.i <= k
           /\ up.i = k => up.err \in {"LIMIT_FILE_SIZE", "filter"}

C7_Witness ==
  /\ up.pc = "done"
  /\ up.err = "LIMIT_FILE_SIZE"
  /\ up.i = 2
  /\ \E r \in MediaSet : r.size = Ceiling

\* C8: the pagination metadata of a listing response is consistent.
C8_PaginationConsistent ==
  (ls.pc = "done" /\ ls.status = 200) =>
    LET pg == ls.pagination
    IN  /\ pg.totalPages * ls.limit >= pg.totalFiles
        /\ (pg.totalPages - 1) * ls.limit < pg.totalFiles
        /\ pg.hasNext <=> pg.currentPage < pg.totalPages
        /\ pg.hasPrev <=> pg.currentPage > 1
        /\ pg.currentPage > pg.totalPages => ls.files = <<>> /\ ~pg.hasNext
        /\ (pg.currentPage = 1 /\ pg.totalFiles > ls.limit) => pg.hasNext /\ ~pg.hasPrev

\* C9: a successful download carries the mimetype of the file's record as
\* its Content-Type whenever the record exists.
C9_ContentTypeOfRecord ==
  (dl.pc = "done" /\ dl.status = 200 /\ dl.recAtStart) =>
    \E r \in RecordsFor(dl.param) : dl.ctype = r.mimetype

\* C10: every failed request is answered with an error status and a JSON
\* body, and the process survives.
C10_ErrorsAreJson ==
  /\ (up.pc = "done" /\ up.err # "none") => up.status >= 400 /\ up.type = "json"
  /\ (dl.pc = "done" /\ dl.status # 200) => dl.status >= 400 /\ dl.type = "json"
  /\ dl.pc # "hung"
  /\ ~crashed

\* C11: a request that arrives while the metadata store cannot be reached
\* (and stays unreachable) does no partial work (no object is written and no record is created for
\* it), ends with an error response, and leaves the process alive.
C11_UnreachableFailsWhole ==
  (up.pc # "idle" /\ up.downAtEntry) =>
    /\ ~crashed
    /\ \A k \in DOMAIN up.refs :
         up.refs[k] \notin DOMAIN hist.stored /\ ~StoredNow(up.refs[k])
    /\ Len(media) = up.m0
    /\ up.pc = "done" => up.status >= 400

\* file k of the request in flight is committed: its object is stored and
\* its record exists
Committed(k) == StoredNow(up.refs[k]) /\ HasRecord(up.refs[k])

\* something of file k of the request in flight is persisted
Persisted(k) == StoredNow(up.refs[k]) \/ HasRecord(up.refs[k])

PersistFailures == {"store", "save", "validation"}

\* C12: the committed files of a request are always a prefix of the
\* submitted order; and when the request has ended because persisting file
\* k failed, it was answered with an error, every file before k is
\* committed (object and record still there) and nothing of any file
\* after k is persisted.
C12_BatchPrefix ==
  /\ \A k \in DOMAIN up.files :
       Committed(k) => \A j \in 1..(k - 1) : Committed(j)
  /\ (up.pc = "done" /\ up.err \in PersistFailures) =>
       /\ up.status >= 400
       /\ \A j \in 1..(up.i - 1) : Committed(j)
       /\ \A j \in (up.i + 1)..Len(up.files) : ~Persisted(j)

\* C13: records are append-only. A step changes the Media collection only
\* by appending one record, and only as the save of the upload in flight;
\* every record that existed is still there, unchanged; and every file of
\* a successful upload has exactly one record.
C13_AppendOnly ==
  /\ [][/\ \A k \in DOMAIN media : k \in DOMAIN media' /\ media'[k] = media[k]
        /\ media' # media =>
             /\ up.pc = "save"
             /\ Len(media') = Len(media) + 1]_vars
  /\ [](\A x \in hist.issued :
          /\ Cardinality({k \in DOMAIN media : media[k]._id = x.d.id}) = 1
          /\ Cardinality({k \in DOMAIN media : RefOf(media[k]) = x.ref}) = 1)

C13_Witness ==
  /\ hist.nIssued >= 2
  /\ hist.nProp >= 1
  /\ properties = <<>>
  /\ user # DefaultUser
  /\ dl.pc = "done"
  /\ dl.status = 200
  /\ \E x \in hist.issued : x.seq = 1 /\ \E r \in MediaSet : r._id = x.d.id

\* the number of files a page holds when the registry has total records
PageFill(page, limit, total) ==
  LET rest == IF total - (page - 1) * limit > 0 THEN total - (page - 1) * limit ELSE 0
  IN  IF limit < rest THEN limit ELSE rest

\* C14: a listing response (positive page size) describes one set of
\* records: the number of files returned is the number the returned
\* totalFiles leaves for that page.
C14_ListingOneView ==
  (ls.pc = "done" /\ ls.status = 200 /\ ls.limit >= 1) =>
    Len(ls.files) = PageFill(ls.page, ls.limit, ls.pagination.totalFiles)

\* C15: a chunked-store download whose response has started (headers or
\* body bytes sent) keeps the one response it has: no event of the read
\* stream makes the handler set a status or answer again.
C15_SingleResponse ==
  (mode = "gridfs" /\ dl.headersSent) =>
    /\ dl.lateStatus = 0
    /\ dl.status = 200 /\ dl.type = "file"

====
